---- MODULE Spec2Model ----
(***************************************************************************)
(* Model of unileverImageStudy/utils/task_calculation.py: the capacity     *)
(* enumerator (visible_capacity), the exposure planner (plan_T_E_auto),    *)
(* the tasks-per-consumer facade and its two closed-form fallbacks.        *)
(*                                                                         *)
(* A category_info dict is modelled by the sequence of its element-list    *)
(* lengths (the code only ever reads len(category_info[c])).  Python's     *)
(* None is the empty tuple and a present value x is the 1-tuple <<x>>.     *)
(* The float constants ABSENCE_RATIO = 2.0 and T_RATIO = 1.50 are kept as   *)
(* exact rationals; all float operations of the code are on integers far   *)
(* below 2^53, where floor and ceil of the quotient are exact.             *)
(***************************************************************************)
EXTENDS Integers, Sequences, FiniteSets, TLC

VARIABLES pc, op, category_info, study_mode, max_active_per_row,
          total_elements, use_advanced_algorithm, min_active, max_active,
          cap, T0, T, slack, E, A_min_used, A_map, avg_k, exc, result,
          results, threads

vars == <<pc, op, category_info, study_mode, max_active_per_row,
          total_elements, use_advanced_algorithm, min_active, max_active,
          cap, T0, T, slack, E, A_min_used, A_map, avg_k, exc, result,
          results, threads>>

----------------------------------------------------------------------------
(* Bounds of the model *)

MaxC == 4

MaxQ == 3

MaxN == 70

MaxTotal == 5

MaxConcQ == 2

----------------------------------------------------------------------------
(* Module-level tuning constants, task_calculation.py lines 12-17 *)

PER_ELEM_EXPOSURES == 3

MIN_ACTIVE_PER_ROW == 2

SAFETY_ROWS == 3

ABSENCE_RATIO == 2

T_RATIO_NUM == 3

T_RATIO_DEN == 2

CAPACITY_SLACK == 1

----------------------------------------------------------------------------
(* Values *)

None == <<>>

Some(x) == <<x>>

Min(a, b) == IF a <= b THEN a ELSE b

Max(a, b) == IF a >= b THEN a ELSE b

CeilDiv(a, b) == -((-a) \div b)

RECURSIVE SumSeq(_)
SumSeq(s) == IF s = <<>> THEN 0 ELSE s[1] + SumSeq(Tail(s))

Infos == UNION {[1..c -> 0..MaxQ] : c \in 0..MaxC}

Modes == {"grid", "layer"}

ActiveArgs == (-1)..(MaxC + 1)

OptInts == {None} \cup {Some(k) : k \in ActiveArgs}

OptInfos == {None} \cup {Some(info) : info \in Infos}


----------------------------------------------------------------------------
(* params_main_effects, lines 22-26 *)

params_main_effects(info) == SumSeq(info) - Len(info) + 1

----------------------------------------------------------------------------
(* visible_capacity, lines 28-48 *)

(* mutation of the inner loop: the element count mi is not multiplied in *)
ConvolveStep_NoWeight(coeff, mi, C) ==
    [k \in 0..C |-> coeff[k] + (IF k >= 1 THEN coeff[k - 1] ELSE 0)]

(* one pass of the inner loop, lines 38-43: nxt[k] receives coeff[k] from  *)
(* the ABS choice and coeff[k-1]*mi from choosing an element               *)
ConvolveStep(coeff, mi, C) ==
    [k \in 0..C |-> coeff[k] + (IF k >= 1 THEN coeff[k - 1] * mi ELSE 0)]

RECURSIVE ConvolveFrom(_, _, _)
ConvolveFrom(m, i, coeff) ==
    IF i > Len(m) THEN coeff
    ELSE ConvolveFrom(m, i + 1, ConvolveStep(coeff, m[i], Len(m)))

Coefficients(info) ==
    ConvolveFrom(info, 1, [k \in 0..Len(info) |-> IF k = 0 THEN 1 ELSE 0])

RECURSIVE SumRange(_, _, _)
SumRange(coeff, lo, hi) ==
    IF lo > hi THEN 0 ELSE coeff[lo] + SumRange(coeff, lo + 1, hi)

(* mutation of line 44: `max_active or C`, which takes 0 for "no cap" *)
CapacityHi_OrC(max_act, C) ==
    IF max_act = None \/ max_act = Some(0) THEN C ELSE Min(max_act[1], C)

(* line 44 *)
CapacityHi(max_act, C) == IF max_act = None THEN C ELSE Min(max_act[1], C)

(* mutation of line 45: the lower end is clamped at 1 *)
CapacityLo_One(min_act) == Max(min_act, 1)

(* line 45 *)
CapacityLo(min_act) == Max(min_act, 0)

visible_capacity(info, min_act, max_act) ==
    LET C  == Len(info)
        hi == CapacityHi(max_act, C)
        lo == CapacityLo(min_act)
    IN  IF lo > hi THEN 0 ELSE SumRange(Coefficients(info), lo, hi)

----------------------------------------------------------------------------
(* plan_T_E_auto, lines 50-109 *)

(* mutation of line 78: no row cap reaches visible_capacity *)
PlanCapArg_NoCap(mode, mapr) == None

(* line 78: the max_active argument of visible_capacity *)
PlanCapArg(mode, mapr) == IF mode = "grid" THEN mapr ELSE None

(* mutation of line 83: the scaled T is rounded down *)
InitialT_Floor(info) ==
    (Max(params_main_effects(info) + SAFETY_ROWS, 2) * T_RATIO_NUM)
        \div T_RATIO_DEN

(* lines 81-83 *)
InitialT(info) ==
    LET base == Max(params_main_effects(info) + SAFETY_ROWS, 2)
    IN  IF T_RATIO_NUM > T_RATIO_DEN
        THEN CeilDiv(base * T_RATIO_NUM, T_RATIO_DEN)
        ELSE base

(* mutation of line 90: without a row cap the per-row minimum is used *)
RowCap_MinActive(info, mode, mapr) ==
    IF mode = "grid" /\ mapr # None THEN mapr[1] ELSE MIN_ACTIVE_PER_ROW

(* line 90 *)
RowCap(info, mode, mapr) ==
    IF mode = "grid" /\ mapr # None THEN mapr[1] ELSE Len(info)

(* mutation of line 88: only the first category bounds the ratio *)
MinRatio_First(info, i, T_try) == T_try \div (info[1] + ABSENCE_RATIO)

(* mutation of line 88: the remainder is taken instead of the quotient *)
MinRatio_Mod(info, i, T_try) == T_try % (info[1] + ABSENCE_RATIO)

(* line 88: min over the categories of floor(T_try / (q[c] + ABSENCE_RATIO)) *)
RECURSIVE MinRatio(_, _, _)
MinRatio(info, i, T_try) ==
    LET b == T_try \div (info[i] + ABSENCE_RATIO)
    IN  IF i = Len(info) THEN b ELSE Min(b, MinRatio(info, i + 1, T_try))

(* the exception E_upper_at_T raises, "none" when it returns *)
E_upper_exc(info) ==
    IF Len(info) = 0 THEN "ValueError"
    ELSE IF SumSeq(info) = 0 THEN "ZeroDivisionError"
    ELSE "none"

(* mutation of E_upper_at_T: the per-category ratio bound is dropped *)
E_upper_at_T_RowcapOnly(info, mode, mapr, T_try) ==
    (T_try * RowCap(info, mode, mapr)) \div SumSeq(info)

E_upper_at_T(info, mode, mapr, T_try) ==
    LET bound_ratio  == MinRatio(info, 1, T_try)
        bound_rowcap == (T_try * RowCap(info, mode, mapr)) \div SumSeq(info)
    IN  Min(bound_ratio, bound_rowcap)

(* mutation of line 96: the slack is left out of the test *)
ExceedsSlack_IgnoreSlack(t, c, sl) == t > Max(c, 0)

(* line 96: T has entered the slack zone below the capacity *)
ExceedsSlack(t, c, sl) == t > Max(c - sl, 0)

(* mutations of the capacity test of line 97 *)
ExceedsCap_LateRaise(t, c) == t > c + 1

ExceedsCap_EarlyRaise(t, c) == t >= c

(* line 97: T exceeds the enumerated capacity *)
ExceedsCap(t, c) == t > c

(* mutation of the acceptance test of line 101 *)
AcceptE_Low(E_up) == E_up >= PER_ELEM_EXPOSURES - 1

(* mutation of the acceptance test of line 101: one exposure more is asked *)
AcceptE_High(E_up) == E_up >= PER_ELEM_EXPOSURES + 1

(* line 101 *)
AcceptE(E_up) == E_up >= PER_ELEM_EXPOSURES

(* mutations of line 104: T is not advanced, T is advanced by 2 *)
NextT_Stay(t) == t

NextT_Skip(t) == t + 2

(* line 104: T += 1 *)
NextT(t) == t + 1

AbsenceMin(e) == CeilDiv(ABSENCE_RATIO * e, 1)

AbsenceMap(info, t, e) == [i \in 1..Len(info) |-> t - info[i] * e]

----------------------------------------------------------------------------
(* Python integers.  total_elements is an unbounded Python int; the       *)
(* binomial of a large total_elements leaves the range of a double, which  *)
(* the true division of line 190 converts to.  An int is a sign and a      *)
(* magnitude; a magnitude is a sequence of limbs, least significant first, *)
(* with no leading zero limb (zero is the empty sequence).                 *)
(* The operators on magnitudes avoid recursion over the limbs: carries and *)
(* remainders are computed by divide and conquer.                          *)

LimbBits == 15

LimbBase == 2 ^ LimbBits

Limb(x, i) == IF i >= 1 /\ i <= Len(x) THEN x[i] ELSE 0

RECURSIVE BigOfNat(_)
BigOfNat(i) ==
    IF i = 0 THEN <<>> ELSE <<i % LimbBase>> \o BigOfNat(i \div LimbBase)

(* the value of a magnitude that fits a machine integer *)
RECURSIVE NatOfBig(_)
NatOfBig(x) ==
    IF x = <<>> THEN 0 ELSE x[1] + LimbBase * NatOfBig(Tail(x))

RECURSIVE TopFrom(_, _)
TopFrom(x, i) == IF i = 0 THEN 0 ELSE IF x[i] # 0 THEN i ELSE TopFrom(x, i - 1)

(* the limbs of x without leading zero limbs *)
BigTrim(x) == SubSeq(x, 1, TopFrom(x, Len(x)))

RECURSIVE SumOver(_, _, _)
SumOver(f, a, b) ==
    IF a > b THEN 0
    ELSE IF a = b THEN f[a]
    ELSE LET m == (a + b) \div 2
         IN  SumOver(f, a, m) + SumOver(f, m + 1, b)

(* -1, 0, 1 as x < y, x = y, x > y *)
BigCmp(x, y) ==
    IF Len(x) < Len(y) THEN -1
    ELSE IF Len(x) > Len(y) THEN 1
    ELSE LET diff == {i \in 1..Len(x) : x[i] # y[i]}
         IN  IF diff = {} THEN 0
             ELSE LET top == CHOOSE i \in diff : \A j \in diff : j <= i
                  IN  IF x[top] < y[top] THEN -1 ELSE 1

(* whether the limb sums s[a..b] carry out of position b (g), and whether  *)
(* they pass a carry on from position a to beyond b (p)                    *)
RECURSIVE CarryGP(_, _, _)
CarryGP(s, a, b) ==
    IF a > b THEN [g |-> FALSE, p |-> TRUE]
    ELSE IF a = b THEN [g |-> s[a] >= LimbBase, p |-> s[a] = LimbBase - 1]
    ELSE LET m  == (a + b) \div 2
             lo == CarryGP(s, a, m)
             hi == CarryGP(s, m + 1, b)
         IN  [g |-> hi.g \/ (hi.p /\ lo.g), p |-> hi.p /\ lo.p]

BigAdd(x, y) ==
    LET L == (IF Len(x) >= Len(y) THEN Len(x) ELSE Len(y)) + 1
        s == SubSeq([i \in 1..L |-> Limb(x, i) + Limb(y, i)], 1, L)
    IN  BigTrim([k \in 1..L |->
                    (s[k] + IF CarryGP(s, 1, k - 1).g THEN 1 ELSE 0)
                        % LimbBase])

(* column k of the long multiplication: the low halves of the limb         *)
(* products of weight k and the high halves of those of weight k - 1       *)
MulColumn(x, y, k) ==
    SumOver([i \in 1..Len(x) |->
                ((Limb(x, i) * Limb(y, k + 1 - i)) % LimbBase)
                + ((Limb(x, i) * Limb(y, k - i)) \div LimbBase)],
            1, Len(x))

BigMul(x, y) ==
    IF x = <<>> \/ y = <<>> THEN <<>>
    ELSE LET L    == Len(x) + Len(y)
             cols == SubSeq([k \in 1..L |-> MulColumn(x, y, k)], 1, L)
             low  == SubSeq([k \in 1..L |-> cols[k] % LimbBase], 1, L)
             high == SubSeq([k \in 1..(L + 1) |->
                               IF k = 1 THEN 0
                               ELSE cols[k - 1] \div LimbBase], 1, L + 1)
         IN  BigAdd(low, high)

(* x * d for a machine integer d >= 0 *)
BigMulSmall(x, d) == BigMul(x, BigOfNat(d))

RECURSIVE FirstNonZeroFrom(_, _)
FirstNonZeroFrom(x, i) == IF x[i] # 0 THEN i ELSE FirstNonZeroFrom(x, i + 1)

(* x - d for 0 <= d < LimbBase and d <= x *)
BigSubSmall(x, d) ==
    IF d = 0 THEN x
    ELSE IF x[1] >= d THEN BigTrim([x EXCEPT ![1] = x[1] - d])
    ELSE LET k == FirstNonZeroFrom(x, 2)
         IN  BigTrim([i \in 1..Len(x) |->
                        IF i = 1 THEN x[1] + LimbBase - d
                        ELSE IF i < k THEN LimbBase - 1
                        ELSE IF i = k THEN x[k] - 1
                        ELSE x[i]])

(* LimbBase^e mod d *)
RECURSIVE BasePowMod(_, _)
BasePowMod(e, d) ==
    IF e = 0 THEN 1 % d
    ELSE LET h == BasePowMod(e \div 2, d)
         IN  IF e % 2 = 0 THEN (h * h) % d
             ELSE (((h * h) % d) * (LimbBase % d)) % d

(* the number with limbs x[a..b], modulo d *)
RECURSIVE SegmentMod(_, _, _, _)
SegmentMod(x, a, b, d) ==
    IF a > b THEN 0
    ELSE IF a = b THEN x[a] % d
    ELSE LET m == (a + b) \div 2
         IN  (SegmentMod(x, a, m, d)
              + SegmentMod(x, m + 1, b, d) * BasePowMod(m - a + 1, d)) % d

(* floor(x / d) for 0 < d < LimbBase: limb i of the quotient is the long   *)
(* division step on the remainder of the limbs above i                     *)
BigDivSmall(x, d) ==
    BigTrim([i \in 1..Len(x) |->
               (SegmentMod(x, i + 1, Len(x), d) * LimbBase + x[i]) \div d])

RECURSIVE BitLengthNat(_)
BitLengthNat(i) == IF i = 0 THEN 0 ELSE 1 + BitLengthNat(i \div 2)

(* int.bit_length() *)
BitLength(x) ==
    IF x = <<>> THEN 0
    ELSE LimbBits * (Len(x) - 1) + BitLengthNat(x[Len(x)])

(* x >> s *)
BigShr(x, s) ==
    LET a == s \div LimbBits
        r == s % LimbBits
    IN  IF Len(x) <= a THEN <<>>
        ELSE BigTrim([k \in 1..(Len(x) - a) |->
                        (Limb(x, k + a) \div (2 ^ r))
                        + ((Limb(x, k + a + 1) % (2 ^ r))
                           * (2 ^ (LimbBits - r)))])

(* x << s *)
BigShl(x, s) ==
    LET a == s \div LimbBits
        r == s % LimbBits
    IN  BigTrim([k \in 1..(Len(x) + a + 1) |->
                    ((Limb(x, k - a) % (2 ^ (LimbBits - r))) * (2 ^ r))
                    + (Limb(x, k - a - 1) \div (2 ^ (LimbBits - r)))])

BigIsOdd(x) == x # <<>> /\ x[1] % 2 = 1

PyInt(i) == [neg |-> i < 0, mag |-> BigOfNat(IF i < 0 THEN -i ELSE i)]

(* n < c and n <= c for a machine integer c >= 0 *)
PyLess(n, c) == n.neg \/ BigCmp(n.mag, BigOfNat(c)) < 0

PyLeq(n, c) == n.neg \/ BigCmp(n.mag, BigOfNat(c)) <= 0

RECURSIVE BigPow10(_)
BigPow10(e) ==
    IF e = 0 THEN BigOfNat(1)
    ELSE LET h == BigPow10(e \div 2)
         IN  IF e % 2 = 0 THEN BigMul(h, h)
             ELSE BigMulSmall(BigMul(h, h), 10)

----------------------------------------------------------------------------
(* IEEE-754 double precision, as used by the true division of line 190 *)

DoubleMantissaBits == 53

DoubleMaxExponent == 1024

(* x rounded to the precision of a double (round half to even).  With     *)
(* 2^e <= x < 2^(e+1), x is exact when e <= 52 and is otherwise rounded to *)
(* a multiple of 2^(e-52).  The true division x / 2 of line 190 yields the *)
(* correctly rounded quotient, which is half of this value.                *)
RoundedToDouble(x) ==
    LET e == BitLength(x) - 1
        s == e - (DoubleMantissaBits - 1)
    IN  IF s <= 0 THEN x
        ELSE LET r2     == BigShr(x, s - 1)
                 m      == BigShr(r2, 1)
                 sticky == BigShl(r2, s - 1) # x
                 up     == BigIsOdd(r2) /\ (sticky \/ BigIsOdd(m))
                 m2     == IF up THEN BigAdd(m, BigOfNat(1)) ELSE m
             IN  BigShl(m2, s)

(* OverflowError: integer division result too large for a float *)
TrueDivByTwoOverflows(x) ==
    BitLength(RoundedToDouble(x)) - 1 > DoubleMaxExponent

(* math.floor(x / 2), line 190, when the division does not overflow *)
FloatFloorHalf(x) == BigDivSmall(RoundedToDouble(x), 2)

----------------------------------------------------------------------------
(* the two fallbacks, lines 155-246; n is a Python int *)

ChooseK(n) == IF PyLeq(n, 8) THEN 2 ELSE IF PyLeq(n, 16) THEN 3 ELSE 4

MaxCapOf(n) ==
    IF PyLeq(n, 16) THEN 24
    ELSE IF PyLeq(n, 32) THEN 48
    ELSE IF PyLeq(n, 64) THEN 96
    ELSE 120

(* min(max_cap, max(1, x)) for a magnitude x, lines 190 and 242 *)
CapTasks(max_cap, x) ==
    LET atleast1 == IF BigCmp(x, BigOfNat(1)) < 0 THEN BigOfNat(1) ELSE x
    IN  IF BigCmp(atleast1, BigOfNat(max_cap)) < 0 THEN NatOfBig(atleast1)
        ELSE max_cap

RECURSIVE Falling(_, _)
Falling(x, k) ==
    IF k = 0 THEN BigOfNat(1)
    ELSE BigMul(x, Falling(BigSubSmall(x, 1), k - 1))

RECURSIVE Factorial(_)
Factorial(k) == IF k = 0 THEN 1 ELSE k * Factorial(k - 1)

(* math.comb(n, k) for 0 <= k <= n: n!/(k!(n-k)!) *)
math_comb(x, k) == BigDivSmall(Falling(x, k), Factorial(k))

(* max_combinations of line 178 *)
SimpleCombinations(n) ==
    LET K == ChooseK(n)
    IN  IF ~PyLess(n, K) THEN math_comb(n.mag, K) ELSE <<>>

(* the outcome of calculate_tasks_per_consumer_simple(n): the value        *)
(* returned, or the exception raised                                       *)
calculate_tasks_per_consumer_simple(n) ==
    IF PyLess(n, 4) THEN [exc |-> "none", value |-> 8]
    ELSE IF TrueDivByTwoOverflows(SimpleCombinations(n))
    THEN [exc |-> "OverflowError", value |-> 0]
    ELSE [exc |-> "none",
          value |-> CapTasks(MaxCapOf(n),
                             FloatFloorHalf(SimpleCombinations(n)))]

(* lines 225-228: result = result * (n - i + 1) // i for i in 1..k *)
RECURSIVE CombinationLoop(_, _, _, _)
CombinationLoop(x, k, i, res) ==
    IF i > k THEN res
    ELSE CombinationLoop(x, k, i + 1,
             BigDivSmall(BigMul(res, BigSubSmall(x, i - 1)), i))

calculate_combination(n, k) ==
    IF PyLess(n, k) THEN <<>>
    ELSE IF k = 0 \/ n = PyInt(k) THEN BigOfNat(1)
    ELSE CombinationLoop(n.mag, k, 1, BigOfNat(1))

(* the outcome of calculate_tasks_per_consumer_javascript(n) *)
calculate_tasks_per_consumer_javascript(n) ==
    IF PyLess(n, 4) THEN [exc |-> "none", value |-> 8]
    ELSE LET max_combinations == calculate_combination(n, ChooseK(n))
         IN  [exc |-> "none",
              value |-> CapTasks(MaxCapOf(n),
                                 BigDivSmall(max_combinations, 2))]

----------------------------------------------------------------------------
(* State machine *)

(* total_elements arguments beyond the machine range: 10^77 and 10^78 *)
HugeTotals == {[neg |-> FALSE, mag |-> BigPow10(e)] : e \in {77, 78}}

Totals == {PyInt(i) : i \in (-2)..MaxN} \cup HugeTotals

FacadeTotals == {PyInt(i) : i \in 0..MaxTotal} \cup HugeTotals

(* calculate_tasks_per_consumer_simple tabulated over the arguments drawn, *)
(* each outcome computed once                                              *)
SimpleOutcomes ==
    {<<n, calculate_tasks_per_consumer_simple(n)>> : n \in Totals}

SimpleOutcome(n) == (CHOOSE p \in SimpleOutcomes : p[1] = n)[2]

(* calculate_tasks_per_consumer_javascript tabulated likewise *)
JavascriptOutcomes ==
    {<<n, calculate_tasks_per_consumer_javascript(n)>> : n \in Totals}

JavascriptOutcome(n) == (CHOOSE p \in JavascriptOutcomes : p[1] = n)[2]

(* the least T in [t, c] that reaches the minimum exposure count, 0 when   *)
(* there is none                                                           *)
RECURSIVE FirstFeasible(_, _, _, _, _)
FirstFeasible(info, mode, mapr, t, c) ==
    IF t > c THEN 0
    ELSE IF E_upper_at_T(info, mode, mapr, t) >= PER_ELEM_EXPOSURES THEN t
    ELSE FirstFeasible(info, mode, mapr, t + 1, c)

(* the T a direct planner call returns on these arguments, 0 when it raises *)
PlannedT(info, mode, mapr) ==
    FirstFeasible(info, mode, mapr, InitialT(info),
                  visible_capacity(info, MIN_ACTIVE_PER_ROW,
                                   IF mode = "grid" THEN mapr ELSE None))

(* Concurrent planner calls.  Each call of plan_T_E_auto runs in its own   *)
(* frame: threads[i] holds the arguments and the locals of the call made   *)
(* by thread i, and its return value once it has returned.                 *)
Threads == {1, 2}

ConcInfos == [1..3 -> 1..MaxConcQ]

ConcArgs == {<<"grid", None>>, <<"grid", Some(2)>>, <<"layer", Some(2)>>}

(* the values of CAPACITY_SLACK the module is run with: thread 1 runs the   *)
(* module as shipped, thread 2 also with the slack set to 0 and to 2       *)
SlackChoices(i) ==
    IF i = 1 THEN {CAPACITY_SLACK}
    ELSE {0, CAPACITY_SLACK, CAPACITY_SLACK + 1}

IdleThread ==
    [pc |-> "idle", category_info |-> None, study_mode |-> "grid",
     max_active_per_row |-> None, cap |-> 0, T0 |-> 0, T |-> 0, slack0 |-> 0,
     slack |-> 0,
     E_up |-> 0, E |-> 0, ret |-> None, exc |-> "none"]

(* the results dict of validate_calculation_consistency: a key that is    *)
(* not set is None; 'advanced' holds a number or an error string           *)
NoResults == [simple |-> None, javascript |-> None, advanced |-> None]

Init ==
    /\ pc = "idle"
    /\ op = "none"
    /\ category_info = None
    /\ study_mode = "grid"
    /\ max_active_per_row = None
    /\ total_elements = PyInt(0)
    /\ use_advanced_algorithm = TRUE
    /\ min_active = 0
    /\ max_active = None
    /\ cap = 0
    /\ T0 = 0
    /\ T = 0
    /\ slack = 0
    /\ E = 0
    /\ A_min_used = 0
    /\ A_map = <<>>
    /\ avg_k = <<0, 1>>
    /\ exc = "none"
    /\ result = None
    /\ results = NoResults
    /\ threads = [i \in Threads |-> IdleThread]

(* no call is in progress *)
Ready == pc = "idle"

(* the outermost call has returned or raised *)
Finished ==
    \/ pc \in {"done", "facade_done", "facade_raised", "validate_raised"}
    \/ pc \in {"returned", "raised"} /\ op = "plan"

(* a call starts with fresh locals *)
FreshLocals ==
    /\ E' = 0
    /\ A_min_used' = 0
    /\ A_map' = <<>>
    /\ avg_k' = <<0, 1>>
    /\ exc' = "none"
    /\ result' = None

FreshPlan ==
    /\ cap' = 0
    /\ T0' = 0
    /\ T' = 0
    /\ slack' = 0

FreshFacadeArgs ==
    /\ total_elements' = PyInt(0)
    /\ use_advanced_algorithm' = TRUE

FreshCapacityArgs ==
    /\ min_active' = 0
    /\ max_active' = None

(* lines 69-94: the planner's set-up, up to the head of the search loop *)
PlanEnter(info, mode, mapr) ==
    /\ category_info' = Some(info)
    /\ study_mode' = mode
    /\ max_active_per_row' = mapr
    /\ cap' = visible_capacity(info, MIN_ACTIVE_PER_ROW, PlanCapArg(mode, mapr))
    /\ T0' = InitialT(info)
    /\ T' = InitialT(info)
    /\ slack' = CAPACITY_SLACK
    /\ pc' = "loop"

(* a direct call plan_T_E_auto(category_info, study_mode, max_active_per_row) *)
PlanCall ==
    /\ Ready
    /\ \E info \in Infos, mode \in Modes, mapr \in OptInts :
          PlanEnter(info, mode, mapr)
    /\ op' = "plan"
    /\ FreshLocals
    /\ FreshFacadeArgs
    /\ FreshCapacityArgs
    /\ UNCHANGED results
    /\ UNCHANGED threads

(* lines 95-99: the capacity guard at the head of an iteration *)
LoopGuard ==
    /\ pc = "loop"
    /\ IF ExceedsSlack(T, cap, slack)
       THEN IF ExceedsCap(T, cap)
            THEN /\ pc' = "raised"
                 /\ exc' = "RuntimeError"
                 /\ slack' = slack
            ELSE /\ pc' = "eval"
                 /\ slack' = 0
                 /\ exc' = exc
       ELSE /\ pc' = "eval"
            /\ UNCHANGED <<slack, exc>>
    /\ UNCHANGED <<op, category_info, study_mode, max_active_per_row,
                   total_elements, use_advanced_algorithm, min_active,
                   max_active, cap, T0, T, E, A_min_used, A_map, avg_k,
                   result>>
    /\ UNCHANGED results
    /\ UNCHANGED threads

(* lines 100-104: E_up is computed, then accepted or T is incremented *)
LoopEval ==
    /\ pc = "eval"
    /\ LET info == category_info[1]
       IN  IF E_upper_exc(info) # "none"
           THEN /\ pc' = "raised"
                /\ exc' = E_upper_exc(info)
                /\ UNCHANGED <<T, E>>
           ELSE LET E_up == E_upper_at_T(info, study_mode,
                                         max_active_per_row, T)
                IN  IF AcceptE(E_up)
                    THEN /\ E' = E_up
                         /\ pc' = "finish"
                         /\ UNCHANGED <<T, exc>>
                    ELSE /\ T' = NextT(T)
                         /\ pc' = "loop"
                         /\ UNCHANGED <<E, exc>>
    /\ UNCHANGED <<op, category_info, study_mode, max_active_per_row,
                   total_elements, use_advanced_algorithm, min_active,
                   max_active, cap, T0, slack, A_min_used, A_map, avg_k,
                   result>>
    /\ UNCHANGED results
    /\ UNCHANGED threads

(* lines 106-109: the plan is assembled and returned *)
PlanFinish ==
    /\ pc = "finish"
    /\ A_min_used' = AbsenceMin(E)
    /\ A_map' = AbsenceMap(category_info[1], T, E)
    /\ avg_k' = <<SumSeq(category_info[1]) * E, T>>
    /\ pc' = "returned"
    /\ UNCHANGED <<op, category_info, study_mode, max_active_per_row,
                   total_elements, use_advanced_algorithm, min_active,
                   max_active, cap, T0, T, slack, E, exc, result>>
    /\ UNCHANGED results
    /\ UNCHANGED threads

(* mutation of the minimum test of line 133 *)
BelowMinimum_Three(n) == PyLess(n, 3)

(* line 133: the design is too small to plan *)
BelowMinimum(n) == PyLess(n, 4)

(* mutation of the facade's argument: the row cap is min(3, C) *)
FacadeRowCap_Three(info, mode) ==
    IF mode = "grid" THEN Some(Min(3, Len(info))) ELSE None

(* the facade's argument, line 142 *)
FacadeRowCap(info, mode) ==
    IF mode = "grid" THEN Some(Min(4, Len(info))) ELSE None

(* `use_advanced_algorithm and category_info`, line 136: None and the empty *)
(* dict are both falsy                                                      *)
UsesPlanner(adv, optinfo) == adv /\ optinfo # None /\ Len(optinfo[1]) > 0

(* mutation of line 148: only ValueError is caught *)
FacadeCatches_ValueErrorOnly(e) == e \in {"ValueError"}

(* `except Exception`, line 148: every exception the planner can raise *)
FacadeCatches(e) == e \in {"RuntimeError", "ValueError", "ZeroDivisionError"}

(* calculate_tasks_per_consumer(n, category_info, study_mode,              *)
(* use_advanced_algorithm) as a callee, lines 133-153: its outcome         *)
calculate_tasks_per_consumer(n, optinfo, mode, adv) ==
    IF BelowMinimum(n) THEN [exc |-> "none", value |-> 8]
    ELSE IF UsesPlanner(adv, optinfo)
    THEN LET t == PlannedT(optinfo[1], mode, FacadeRowCap(optinfo[1], mode))
         IN  IF t > 0 THEN [exc |-> "none", value |-> t]
             ELSE IF FacadeCatches("RuntimeError") THEN SimpleOutcome(n)
             ELSE [exc |-> "RuntimeError", value |-> 0]
    ELSE SimpleOutcome(n)

(* line 153: the facade returns what the simple fallback returns, and an  *)
(* exception of the simple fallback leaves the facade                      *)
SimpleFallback(n) ==
    LET o == SimpleOutcome(n)
    IN  IF o.exc = "none"
        THEN /\ result' = Some(o.value)
             /\ exc' = exc
             /\ pc' = "facade_done"
        ELSE /\ result' = None
             /\ exc' = o.exc
             /\ pc' = "facade_raised"

(* lines 133-143 and 153: calculate_tasks_per_consumer up to its first     *)
(* return or to the call of the planner                                    *)
FacadeCall ==
    /\ Ready
    /\ \E n \in FacadeTotals, optinfo \in OptInfos, mode \in Modes,
          adv \in BOOLEAN :
          /\ total_elements' = n
          /\ use_advanced_algorithm' = adv
          /\ IF BelowMinimum(n)
             THEN /\ result' = Some(8)
                  /\ exc' = "none"
                  /\ pc' = "facade_done"
                  /\ category_info' = optinfo
                  /\ study_mode' = mode
                  /\ max_active_per_row' = None
                  /\ FreshPlan
             ELSE IF UsesPlanner(adv, optinfo)
             THEN /\ PlanEnter(optinfo[1], mode, FacadeRowCap(optinfo[1], mode))
                  /\ result' = None
                  /\ exc' = "none"
             ELSE /\ SimpleFallback(n)
                  /\ category_info' = optinfo
                  /\ study_mode' = mode
                  /\ max_active_per_row' = None
                  /\ FreshPlan
    /\ op' = "facade"
    /\ E' = 0
    /\ A_min_used' = 0
    /\ A_map' = <<>>
    /\ avg_k' = <<0, 1>>
    /\ FreshCapacityArgs
    /\ UNCHANGED results
    /\ UNCHANGED threads

(* lines 145-153: the planner has returned to, or raised into, the facade *)
FacadeResume ==
    /\ op = "facade"
    /\ pc \in {"returned", "raised"}
    /\ IF pc = "returned"
       THEN /\ result' = Some(T)
            /\ pc' = "facade_done"
            /\ exc' = exc
       ELSE IF FacadeCatches(exc)
       THEN SimpleFallback(total_elements)
       ELSE /\ result' = result
            /\ pc' = "facade_raised"
            /\ exc' = exc
    /\ UNCHANGED <<op, category_info, study_mode, max_active_per_row,
                   total_elements, use_advanced_algorithm, min_active,
                   max_active, cap, T0, T, slack, E, A_min_used, A_map,
                   avg_k>>
    /\ UNCHANGED results
    /\ UNCHANGED threads

(* the outcome of a direct call of a fallback *)
FallbackOutcome(o) ==
    /\ result' = (IF o.exc = "none" THEN Some(o.value) ELSE None)
    /\ exc' = o.exc
    /\ pc' = "done"

(* a direct call calculate_tasks_per_consumer_simple(total_elements) *)
SimpleCall ==
    /\ Ready
    /\ \E n \in Totals :
          /\ total_elements' = n
          /\ FallbackOutcome(SimpleOutcome(n))
    /\ op' = "simple"
    /\ category_info' = None
    /\ study_mode' = "grid"
    /\ max_active_per_row' = None
    /\ use_advanced_algorithm' = TRUE
    /\ E' = 0
    /\ A_min_used' = 0
    /\ A_map' = <<>>
    /\ avg_k' = <<0, 1>>
    /\ FreshPlan
    /\ FreshCapacityArgs
    /\ UNCHANGED results
    /\ UNCHANGED threads

(* a direct call calculate_tasks_per_consumer_javascript(total_elements) *)
JavascriptCall ==
    /\ Ready
    /\ \E n \in Totals :
          /\ total_elements' = n
          /\ FallbackOutcome(JavascriptOutcome(n))
    /\ op' = "javascript"
    /\ category_info' = None
    /\ study_mode' = "grid"
    /\ max_active_per_row' = None
    /\ use_advanced_algorithm' = TRUE
    /\ E' = 0
    /\ A_min_used' = 0
    /\ A_map' = <<>>
    /\ avg_k' = <<0, 1>>
    /\ FreshPlan
    /\ FreshCapacityArgs
    /\ UNCHANGED results
    /\ UNCHANGED threads

(* a direct call visible_capacity(category_info, min_active, max_active) *)
CapacityCall ==
    /\ Ready
    /\ \E info \in Infos, lo \in ActiveArgs, hi \in OptInts :
          /\ category_info' = Some(info)
          /\ min_active' = lo
          /\ max_active' = hi
          /\ result' = Some(visible_capacity(info, lo, hi))
    /\ op' = "capacity"
    /\ pc' = "done"
    /\ study_mode' = "grid"
    /\ max_active_per_row' = None
    /\ E' = 0
    /\ A_min_used' = 0
    /\ A_map' = <<>>
    /\ avg_k' = <<0, 1>>
    /\ exc' = "none"
    /\ FreshPlan
    /\ FreshFacadeArgs
    /\ UNCHANGED results
    /\ UNCHANGED threads

(* validate_calculation_consistency(total_elements, category_info), lines  *)
(* 248-276: the two fallbacks are called outside any try block, the        *)
(* facade inside one                                                       *)
ValidateCall ==
    /\ Ready
    /\ \E n \in FacadeTotals, optinfo \in OptInfos :
          LET simple   == SimpleOutcome(n)
              js       == JavascriptOutcome(n)
              truthy   == optinfo # None /\ Len(optinfo[1]) > 0
              advanced == calculate_tasks_per_consumer(n, optinfo, "grid", TRUE)
          IN  /\ total_elements' = n
              /\ category_info' = optinfo
              /\ IF simple.exc # "none"
                 THEN /\ pc' = "validate_raised"
                      /\ exc' = simple.exc
                      /\ results' = NoResults
                 ELSE IF js.exc # "none"
                 THEN /\ pc' = "validate_raised"
                      /\ exc' = js.exc
                      /\ results' = [NoResults EXCEPT !.simple = Some(simple.value)]
                 ELSE /\ pc' = "done"
                      /\ exc' = "none"
                      /\ results' =
                            [simple |-> Some(simple.value),
                             javascript |-> Some(js.value),
                             advanced |->
                                IF truthy
                                THEN Some([error |-> advanced.exc # "none",
                                           value |-> advanced.value])
                                ELSE None]
    /\ op' = "validate"
    /\ result' = None
    /\ study_mode' = "grid"
    /\ max_active_per_row' = None
    /\ use_advanced_algorithm' = TRUE
    /\ E' = 0
    /\ A_min_used' = 0
    /\ A_map' = <<>>
    /\ avg_k' = <<0, 1>>
    /\ FreshPlan
    /\ FreshCapacityArgs
    /\ UNCHANGED threads

(* the caller takes the outcome; the frame of the call is discarded *)
Return ==
    /\ Finished
    /\ pc' = "idle"
    /\ op' = "none"
    /\ category_info' = None
    /\ study_mode' = "grid"
    /\ max_active_per_row' = None
    /\ FreshLocals
    /\ FreshPlan
    /\ FreshFacadeArgs
    /\ FreshCapacityArgs
    /\ results' = NoResults
    /\ UNCHANGED threads

Next ==
    \/ PlanCall
    \/ LoopGuard
    \/ LoopEval
    \/ PlanFinish
    \/ FacadeCall
    \/ FacadeResume
    \/ SimpleCall
    \/ JavascriptCall
    \/ CapacityCall
    \/ ValidateCall
    \/ Return

Spec == Init /\ [][Next]_vars

(* a call that has started runs on: the interpreter executes the next      *)
(* statement of the planner                                                *)
FairSpec ==
    /\ Spec
    /\ WF_vars(LoopGuard)
    /\ WF_vars(LoopEval)
    /\ WF_vars(PlanFinish)

----------------------------------------------------------------------------
(* Planner calls made by concurrent threads *)

(* the variables of the sequential caller *)
seqvars == <<pc, op, category_info, study_mode, max_active_per_row,
             total_elements, use_advanced_algorithm, min_active, max_active,
             cap, T0, T, slack, E, A_min_used, A_map, avg_k, exc, result,
             results>>

(* mutation: T is a module-level variable, kept in one place for all calls *)
FrameOf_Global(i) == 1

(* line 81: T is a local of the call, kept in the frame of that call *)
FrameOf(i) == i

(* the T the call of thread i reads *)
ThreadT(i) == threads[FrameOf(i)].T

(* lines 69-94 in thread i *)
ThreadCall(i) ==
    /\ threads[i].pc = "idle"
    /\ \E info \in ConcInfos, a \in ConcArgs, sl \in SlackChoices(i) :
          threads' =
            [threads EXCEPT
               ![i] = [IdleThread EXCEPT
                         !.pc = "loop",
                         !.category_info = Some(info),
                         !.study_mode = a[1],
                         !.max_active_per_row = a[2],
                         !.cap = visible_capacity(info, MIN_ACTIVE_PER_ROW,
                                                  PlanCapArg(a[1], a[2])),
                         !.T0 = InitialT(info),
                         !.slack0 = sl,
                         !.slack = sl],
               ![FrameOf(i)].T = InitialT(info)]
    /\ UNCHANGED seqvars

(* lines 95-99 in thread i *)
ThreadGuard(i) ==
    /\ threads[i].pc = "loop"
    /\ LET me == threads[i]
           t  == ThreadT(i)
       IN  threads' =
             IF ExceedsSlack(t, me.cap, me.slack)
             THEN IF ExceedsCap(t, me.cap)
                  THEN [threads EXCEPT ![i].pc = "raised",
                                       ![i].exc = "RuntimeError"]
                  ELSE [threads EXCEPT ![i].pc = "compute",
                                       ![i].slack = 0]
             ELSE [threads EXCEPT ![i].pc = "compute"]
    /\ UNCHANGED seqvars

(* line 100 in thread i: E_up = E_upper_at_T(T) *)
ThreadCompute(i) ==
    /\ threads[i].pc = "compute"
    /\ LET me == threads[i]
           info == me.category_info[1]
       IN  threads' =
             IF E_upper_exc(info) # "none"
             THEN [threads EXCEPT ![i].pc = "raised",
                                  ![i].exc = E_upper_exc(info)]
             ELSE [threads EXCEPT
                     ![i].pc = "branch",
                     ![i].E_up = E_upper_at_T(info, me.study_mode,
                                              me.max_active_per_row,
                                              ThreadT(i))]
    /\ UNCHANGED seqvars

(* lines 101-104 in thread i *)
ThreadBranch(i) ==
    /\ threads[i].pc = "branch"
    /\ threads' =
          IF AcceptE(threads[i].E_up)
          THEN [threads EXCEPT ![i].pc = "finish",
                               ![i].E = threads[i].E_up]
          ELSE [threads EXCEPT ![i].pc = "loop",
                               ![FrameOf(i)].T = NextT(ThreadT(i))]
    /\ UNCHANGED seqvars

(* lines 106-109 in thread i *)
ThreadFinish(i) ==
    /\ threads[i].pc = "finish"
    /\ LET me == threads[i]
           info == me.category_info[1]
           t == ThreadT(i)
       IN  threads' =
             [threads EXCEPT
                ![i].pc = "returned",
                ![i].ret = Some([T |-> t,
                                 E |-> me.E,
                                 A_map |-> AbsenceMap(info, t, me.E),
                                 avg_k |-> <<SumSeq(info) * me.E, t>>,
                                 A_min_used |-> AbsenceMin(me.E)])]
    /\ UNCHANGED seqvars

ConcNext ==
    \E i \in Threads :
        \/ ThreadCall(i)
        \/ ThreadGuard(i)
        \/ ThreadCompute(i)
        \/ ThreadBranch(i)
        \/ ThreadFinish(i)

ConcSpec == Init /\ [][ConcNext]_vars

----------------------------------------------------------------------------
(* Properties *)

(* the arguments of the planner call in progress *)
PlanInfo == category_info[1]

PlanSucceeded == pc \in {"finish", "returned"}

(* the capacity the planner enumerates for the call in progress, computed  *)
(* from the arguments of the call                                          *)
CapOfCall ==
    visible_capacity(PlanInfo, MIN_ACTIVE_PER_ROW,
                     IF study_mode = "grid" THEN max_active_per_row ELSE None)

(* some T in [t0, c] reaches the minimum exposure count *)
FeasibleIn(info, mode, mapr, t0, c) ==
    \E t \in t0..c : E_upper_at_T(info, mode, mapr, t) >= PER_ELEM_EXPOSURES

(* C1: whenever the search loop computes E, and whenever a plan is         *)
(* returned, T is at most visible_capacity(category_info,                  *)
(* MIN_ACTIVE_PER_ROW, max_active_per_row if grid else None).              *)
C1_TWithinCapacity ==
    pc \in {"eval", "finish", "returned"} => T <= CapOfCall

(* a grid plan with a row cap is returned with T equal to the capacity *)
C1_Witness ==
    /\ pc = "returned"
    /\ op = "plan"
    /\ study_mode = "grid"
    /\ max_active_per_row # None
    /\ T = CapOfCall

(* C2: every returned plan has E >= PER_ELEM_EXPOSURES = 3. *)
C2_MinExposures ==
    PlanSucceeded => E >= PER_ELEM_EXPOSURES /\ PER_ELEM_EXPOSURES = 3

(* a plan is returned after at least one T was rejected *)
C2_Witness ==
    /\ pc = "returned"
    /\ op = "plan"
    /\ T > T0
    /\ E = 3

(* C3: in every returned plan, for every category c,                       *)
(* A_map[c] = T - q[c]*E, A_map[c] >= A_min_used = ceil(ABSENCE_RATIO*E),   *)
(* and 0 <= A_map[c] <= T.                                                 *)
C3_AbsenceBudget ==
    pc = "returned" =>
        /\ A_min_used = 2 * E
        /\ DOMAIN A_map = 1..Len(PlanInfo)
        /\ \A c \in 1..Len(PlanInfo) :
              /\ A_map[c] = T - PlanInfo[c] * E
              /\ A_map[c] >= A_min_used
              /\ 0 <= A_map[c]
              /\ A_map[c] <= T

(* a returned plan in which one category's absence budget is exactly the   *)
(* minimum and another's is above it                                       *)
C3_Witness ==
    /\ pc = "returned"
    /\ op = "plan"
    /\ \E c \in 1..Len(PlanInfo) : A_map[c] = A_min_used
    /\ \E c \in 1..Len(PlanInfo) : A_map[c] > A_min_used

(* C4: the planner raises the infeasibility error iff no T in [T0, cap]    *)
(* has E_upper_at_T(T) >= PER_ELEM_EXPOSURES; it raises without trying any *)
(* T when T0 > cap, and it has tried T = cap when it raises later.         *)
C4_RaisesIffInfeasible ==
    pc \in {"returned", "raised"} =>
        LET t0 == InitialT(PlanInfo)
            c  == CapOfCall
            feasible == FeasibleIn(PlanInfo, study_mode, max_active_per_row,
                                   t0, c)
        IN  /\ (pc = "raised") <=> ~feasible
            /\ pc = "raised" => exc = "RuntimeError"
            /\ t0 > c => pc = "raised" /\ T = t0
            /\ pc = "raised" /\ t0 <= c => T = c + 1

(* the planner raises after having tried every T from T0 up to cap *)
C4_Witness ==
    /\ pc = "raised"
    /\ op = "plan"
    /\ T0 < cap
    /\ T = cap + 1

FacadeGivenInfo == category_info # None /\ category_info # Some(<<>>)

FallbackDone == pc = "done" /\ op \in {"simple", "javascript"}

(* the outcome the facade has on a planner T (0 when the planner raised    *)
(* or was not called): T, or the outcome of the simple fallback            *)
OutcomeFor(t, n) ==
    IF t > 0 THEN [exc |-> "none", value |-> t]
    ELSE SimpleOutcome(n)

(* C5: the facade and the two fallbacks never raise and always return a    *)
(* positive integer.                                                       *)
C5_AlwaysPositiveInteger ==
    /\ pc # "facade_raised"
    /\ pc = "facade_done" \/ FallbackDone =>
          /\ exc \in {"none", "RuntimeError"}
          /\ result # None
          /\ result[1] \in Nat
          /\ result[1] >= 1

(* C6: for total_elements >= 4, with advanced mode on and a non-empty      *)
(* category_info, the facade calls the planner with min(4, C) in grid mode *)
(* and None otherwise, returns the planner's T when it succeeds and        *)
(* calculate_tasks_per_consumer_simple(total_elements) when it raises;     *)
(* with advanced mode off or no category_info it returns the simple value. *)
C6_FacadeResult ==
    pc \in {"facade_done", "facade_raised"} /\ ~PyLess(total_elements, 4) =>
        LET planned == use_advanced_algorithm /\ FacadeGivenInfo
            info == category_info[1]
            arg  == IF study_mode = "grid"
                    THEN Some(Min(4, Len(info))) ELSE None
            o    == OutcomeFor(IF planned
                               THEN PlannedT(info, study_mode, arg) ELSE 0,
                               total_elements)
        IN  /\ planned => max_active_per_row = arg
            /\ (pc = "facade_done") <=> (o.exc = "none")
            /\ pc = "facade_done" => result = Some(o.value)

(* the facade has returned the T of a successful grid plan, which differs  *)
(* from the simple value                                                   *)
C6_Witness ==
    /\ pc = "facade_done"
    /\ ~PyLess(total_elements, 4)
    /\ study_mode = "grid"
    /\ exc = "none"
    /\ T > 0
    /\ result = Some(T)
    /\ T # SimpleOutcome(total_elements).value

(* C7: for total_elements < 4 the facade and both fallbacks return 8. *)
C7_BelowFourIsEight ==
    PyLess(total_elements, 4) /\ (pc = "facade_done" \/ FallbackDone) =>
        result = Some(8)

(* the facade has returned 8 for total_elements = 3 in advanced mode on a  *)
(* category_info on which the planner succeeds                             *)
C7_Witness ==
    /\ pc = "facade_done"
    /\ total_elements = PyInt(3)
    /\ use_advanced_algorithm
    /\ FacadeGivenInfo
    /\ PlannedT(category_info[1], study_mode,
                IF study_mode = "grid"
                THEN Some(Min(4, Len(category_info[1]))) ELSE None) > 0
    /\ result = Some(8)

(* C8: calculate_tasks_per_consumer_simple(n) equals                       *)
(* calculate_tasks_per_consumer_javascript(n) for every integer n.         *)
C8_FallbacksAgree ==
    /\ pc = "done" /\ op = "simple" =>
          /\ exc = "none"
          /\ result =
                Some(JavascriptOutcome(total_elements).value)
    /\ pc = "done" /\ op = "javascript" =>
          /\ SimpleOutcome(total_elements).exc = "none"
          /\ result =
                Some(SimpleOutcome(total_elements).value)

(* min(max_cap, max(1, floor(C(n,K)/2))) with the tiers written out, for   *)
(* a machine integer n >= 4                                                *)
SimpleExpected(n) ==
    LET binom == CASE n <= 8 -> (n * (n - 1)) \div 2
                   [] n > 8 /\ n <= 16 -> (n * (n - 1) * (n - 2)) \div 6
                   [] n > 16 ->
                        (n * (n - 1) * (n - 2) * (n - 3)) \div 24
        max_cap == CASE n <= 16 -> 24
                     [] n > 16 /\ n <= 32 -> 48
                     [] n > 32 /\ n <= 64 -> 96
                     [] n > 64 -> 120
        half == binom \div 2
    IN  Min(max_cap, IF half >= 1 THEN half ELSE 1)

(* C9: for n >= 4 the simple fallback returns                              *)
(* min(max_cap, max(1, floor(C(n,K)/2))) with K = 2, 3, 4 for n <= 8,      *)
(* n <= 16, n > 16 and max_cap = 24, 48, 96, 120 for n <= 16, <= 32,       *)
(* <= 64, > 64; for n = 10 it returns 24.  (Beyond the machine range       *)
(* floor(C(n,4)/2) exceeds the cap 120.)                                   *)
C9_SimpleFormula ==
    pc = "done" /\ op = "simple" /\ ~PyLess(total_elements, 4) =>
        /\ result = Some(IF Len(total_elements.mag) <= 1
                         THEN SimpleExpected(NatOfBig(total_elements.mag))
                         ELSE 120)
        /\ total_elements = PyInt(10) => result = Some(24)

(* the number of row patterns over categories i..C that, together with k   *)
(* categories already active, have between lo and hi active categories:    *)
(* category i is absent, or shows one of its info[i] elements              *)
RECURSIVE Patterns(_, _, _, _, _)
Patterns(info, i, k, lo, hi) ==
    IF i > Len(info) THEN (IF lo <= k /\ k <= hi THEN 1 ELSE 0)
    ELSE Patterns(info, i + 1, k, lo, hi)
         + info[i] * Patterns(info, i + 1, k + 1, lo, hi)

RECURSIVE ProductOnePlus(_)
ProductOnePlus(info) ==
    IF info = <<>> THEN 1 ELSE (1 + info[1]) * ProductOnePlus(Tail(info))

(* C10: for 0 <= lo <= hi <= C, visible_capacity(info, lo, hi) is the      *)
(* number of row patterns with between lo and hi active categories; for    *)
(* lo = 0, hi = C it is the product of (1 + q[c]); for two categories and  *)
(* lo = hi = 2 it is q[A]*q[B].                                            *)
C10_CapacityCountsPatterns ==
    /\ pc = "done"
    /\ op = "capacity"
    /\ max_active # None
    /\ 0 <= min_active
    /\ min_active <= max_active[1]
    /\ max_active[1] <= Len(category_info[1])
    => LET info == category_info[1]
           lo   == min_active
           hi   == max_active[1]
       IN  /\ result = Some(Patterns(info, 1, 0, lo, hi))
           /\ lo = 0 /\ hi = Len(info) => result = Some(ProductOnePlus(info))
           /\ Len(info) = 2 /\ lo = 2 /\ hi = 2 =>
                 result = Some(info[1] * info[2])

(* visible_capacity({A: 2 elements, B: 3 elements}, 2, 2) has returned 6 *)
C10_Witness ==
    /\ pc = "done"
    /\ op = "capacity"
    /\ category_info = Some(<<2, 3>>)
    /\ min_active = 2
    /\ max_active = Some(2)
    /\ result = Some(6)

(* a direct call of visible_capacity with an integer max_active has        *)
(* returned                                                                *)
CapacityDone == pc = "done" /\ op = "capacity" /\ max_active # None

(* C11: visible_capacity is monotone non-decreasing in max_active for      *)
(* fixed min_active, and monotone non-increasing in min_active for fixed   *)
(* max_active, over all integer values of both.                            *)
C11_CapacityMonotone ==
    CapacityDone =>
        LET info == category_info[1]
        IN  /\ \A hi \in ActiveArgs :
                  hi >= max_active[1] =>
                      visible_capacity(info, min_active, Some(hi)) >= result[1]
            /\ \A lo \in ActiveArgs :
                  lo >= min_active =>
                      visible_capacity(info, lo, max_active) <= result[1]

(* a call whose result grows strictly with max_active + 1 and shrinks      *)
(* strictly with min_active + 1, at max_active = 0                         *)
C11_Witness ==
    /\ CapacityDone
    /\ max_active = Some(0)
    /\ min_active = 0
    /\ result[1] <
          visible_capacity(category_info[1], min_active, Some(1))
    /\ result[1] >
          visible_capacity(category_info[1], min_active + 1, max_active)

(* the sum of the coefficients of degree lo..hi, 0 when the range is empty *)
RangeSum(info, lo, hi) ==
    IF lo > hi THEN 0 ELSE SumRange(Coefficients(info), lo, hi)

(* C12 as stated: the range is [max(min_active, 0),                        *)
(* min(max_active or C, C)], where `max_active or C` is C when max_active  *)
(* is None or 0.                                                           *)
C12_RangeWithOrC ==
    pc = "done" /\ op = "capacity" =>
        LET info == category_info[1]
            C    == Len(info)
            orC  == IF max_active = None \/ max_active = Some(0)
                    THEN C ELSE max_active[1]
        IN  result = Some(RangeSum(info, Max(min_active, 0), Min(orC, C)))

(* C12 amended: the range is [max(min_active, 0), min(max_active, C)]      *)
(* with C for max_active = None only; max_active = 0 caps the range at 0,  *)
(* and an empty range gives 0.                                             *)
C12_RangeWithNoneAsC ==
    pc = "done" /\ op = "capacity" =>
        LET info == category_info[1]
            C    == Len(info)
            top  == IF max_active = None THEN C ELSE Min(max_active[1], C)
        IN  /\ result = Some(RangeSum(info, Max(min_active, 0), top))
            /\ Max(min_active, 0) > top => result = Some(0)
            /\ max_active = Some(0) /\ min_active <= 0 => result = Some(1)

(* visible_capacity(info, -1, 0) has returned 1 on a category_info whose   *)
(* full range sums to more                                                 *)
C12_Witness ==
    /\ pc = "done"
    /\ op = "capacity"
    /\ max_active = Some(0)
    /\ min_active = -1
    /\ result = Some(1)
    /\ visible_capacity(category_info[1], -1, None) > 1

(* the mapping is empty or some category has no element *)
Degenerate(info) == info = <<>> \/ \E c \in 1..Len(info) : info[c] = 0

(* C13: planning on an empty mapping, or on a category_info with an empty  *)
(* category, fails with a configuration error, distinct from the           *)
(* infeasibility error, and returns neither a plan nor a capacity.         *)
C13_DegenerateIsConfigurationError ==
    category_info # None /\ Degenerate(category_info[1]) =>
        /\ ~PlanSucceeded
        /\ pc = "raised" => exc = "ConfigurationError"
        /\ ~(pc = "done" /\ op = "capacity")

(* C14: plan_T_E_auto returns a plan or raises the infeasibility error and *)
(* has no other failure: E_upper_at_T is never evaluated with M = 0 or     *)
(* without categories, also not when max_active_per_row is 0, 1 or         *)
(* negative in grid mode.                                                  *)
C14_OnlyInfeasibilityIsRaised ==
    /\ pc = "raised" => exc = "RuntimeError"
    /\ pc = "eval" =>
          /\ E_upper_exc(PlanInfo) = "none"
          /\ SumSeq(PlanInfo) > 0
          /\ T >= 1
    /\ pc \in {"returned", "raised"} /\ study_mode = "grid"
          /\ max_active_per_row # None /\ max_active_per_row[1] <= 1
          => pc = "raised"

(* the planner has raised infeasibility on categories that are all empty,  *)
(* in grid mode with max_active_per_row = 0                                *)
C14_Witness ==
    /\ pc = "raised"
    /\ op = "plan"
    /\ exc = "RuntimeError"
    /\ Len(PlanInfo) = MaxC
    /\ SumSeq(PlanInfo) = 0
    /\ study_mode = "grid"
    /\ max_active_per_row = Some(0)

InSearch == pc \in {"loop", "eval"}

(* C15: the search loop terminates on every input, by accepting (T, E) or  *)
(* by raising infeasibility; T never decreases and grows by exactly 1 per  *)
(* rejected iteration, and only values of T in [T0, cap] are examined, at  *)
(* most cap - T0 + 1 of them.                                              *)
C15_SearchTerminates ==
    /\ [](pc = "eval" => T0 <= T /\ T <= cap /\ T - T0 + 1 <= cap - T0 + 1)
    /\ [](InSearch => T0 <= T /\ T <= Max(cap + 1, T0))
    /\ [][InSearch =>
             \/ T' = T
             \/ pc = "eval" /\ pc' = "loop" /\ T' = T + 1]_vars
    /\ [][pc = "eval" /\ pc' = "loop" => T' = T + 1]_vars
    /\ InSearch ~> (pc \in {"returned", "raised"})

(* a plan is returned after at least two values of T were rejected *)
C15_Witness ==
    /\ pc = "returned"
    /\ op = "plan"
    /\ T >= T0 + 2

(* e satisfies the absence bound of every category and the row-cap bound   *)
(* at t: t - q[c]*e >= ceil(ABSENCE_RATIO*e) and M*e <= t*rowcap           *)
SatisfiesBounds(info, mode, mapr, t, e) ==
    /\ \A c \in 1..Len(info) : t - info[c] * e >= CeilDiv(ABSENCE_RATIO * e, 1)
    /\ SumSeq(info) * e <= t * RowCap(info, mode, mapr)

(* C16: a returned T is the smallest T >= T0 with                          *)
(* E_upper_at_T(T) >= PER_ELEM_EXPOSURES, and the returned E is            *)
(* E_upper_at_T(T), the largest count that satisfies both bounds at T.     *)
C16_SmallestTLargestE ==
    pc = "returned" =>
        LET info == PlanInfo
            mode == study_mode
            mapr == max_active_per_row
        IN  /\ T0 = InitialT(info)
            /\ T >= T0
            /\ E = E_upper_at_T(info, mode, mapr, T)
            /\ E >= PER_ELEM_EXPOSURES
            /\ \A t \in T0..(T - 1) :
                  /\ E_upper_at_T(info, mode, mapr, t) < PER_ELEM_EXPOSURES
                  /\ \A e \in 3..t : ~SatisfiesBounds(info, mode, mapr, t, e)
            /\ SatisfiesBounds(info, mode, mapr, T, E)
            /\ \A e \in (E + 1)..(T + 1) :
                  ~SatisfiesBounds(info, mode, mapr, T, e)

(* a plan is returned with a row cap below C after three rejected values   *)
(* of T                                                                    *)
C16_Witness ==
    /\ pc = "returned"
    /\ op = "plan"
    /\ study_mode = "grid"
    /\ max_active_per_row # None
    /\ max_active_per_row[1] < Len(PlanInfo)
    /\ T >= T0 + 3

(* the least element of a non-empty set of integers *)
Least(S) == CHOOSE b \in S : \A b2 \in S : b <= b2

C19_ValidateNeverRaises ==
    /\ pc # "validate_raised"
    /\ pc = "done" /\ op = "validate" =>
          /\ results.simple = Some(SimpleOutcome(total_elements).value)
          /\ results.javascript = Some(JavascriptOutcome(total_elements).value)
          /\ (results.advanced # None) <=> FacadeGivenInfo

ThreadDone(i) == threads[i].pc \in {"returned", "raised"}

(* the arguments of the call of thread i *)
ThreadArgs(i) ==
    <<threads[i].category_info, threads[i].study_mode,
      threads[i].max_active_per_row>>

(* what the caller of thread i observes: the tuple returned or the         *)
(* exception raised                                                        *)
ThreadOutcome(i) == <<threads[i].pc, threads[i].ret, threads[i].exc>>

PlanAlone(info, mode, mapr) ==
    LET t == PlannedT(info, mode, mapr)
        e == E_upper_at_T(info, mode, mapr, t)
    IN  IF t = 0 THEN <<"raised", None, "RuntimeError">>
        ELSE <<"returned",
               Some([T |-> t, E |-> e, A_map |-> AbsenceMap(info, t, e),
                     avg_k |-> <<SumSeq(info) * e, t>>,
                     A_min_used |-> 2 * e]),
               "none">>

(* C18: under every interleaving of concurrent planner calls each call     *)
(* has the outcome it has when run alone; a step of one call changes       *)
(* nothing of another call, and a call leaves its caller's category_info   *)
(* as it was given.                                                        *)
C18_ConcurrentCallsIndependent ==
    /\ [](\A i \in Threads :
            ThreadDone(i) =>
                ThreadOutcome(i) =
                    PlanAlone(threads[i].category_info[1],
                              threads[i].study_mode,
                              threads[i].max_active_per_row))
    /\ [][\A i, j \in Threads :
             i # j => threads'[i] = threads[i] \/ threads'[j] = threads[j]]_vars
    /\ [][\A i \in Threads :
             threads[i].pc # "idle" =>
                 /\ threads'[i].category_info = threads[i].category_info
                 /\ threads'[i].study_mode = threads[i].study_mode
                 /\ threads'[i].max_active_per_row =
                       threads[i].max_active_per_row]_vars

(* one call has returned a plan while the other, on other arguments, is    *)
(* in the middle of its search                                             *)
C18_Witness ==
    /\ threads[1].pc = "returned"
    /\ threads[2].pc = "branch"
    /\ ThreadArgs(1) # ThreadArgs(2)
    /\ threads[2].T > threads[2].T0
    /\ threads[1].ret[1].T # threads[2].T

(* a planner call is in progress or has ended *)
PlanStarted == pc \in {"loop", "eval", "finish", "returned", "raised"}

(* C21: the search starts at T0 = ceil(T_RATIO * max(P + SAFETY_ROWS, 2))  *)
(* with P = M - C + 1, and every returned T satisfies                      *)
(* T >= T0 >= P + SAFETY_ROWS.                                             *)
C21_StartsAtScaledFloor ==
    PlanStarted =>
        LET M == SumSeq(PlanInfo)
            C == Len(PlanInfo)
            P == M - C + 1
            base == IF P + 3 >= 2 THEN P + 3 ELSE 2
        IN  /\ params_main_effects(PlanInfo) = P
            /\ 2 * T0 >= 3 * base
            /\ 2 * (T0 - 1) < 3 * base
            /\ T0 >= P + SAFETY_ROWS
            /\ pc = "loop" /\ slack = CAPACITY_SLACK /\ exc = "none" => T >= T0
            /\ pc = "returned" => T >= T0

(* a plan is returned on a category_info for which max(P + SAFETY_ROWS, 2) *)
(* is odd, so that the ceiling rounds up                                   *)
C21_Witness ==
    /\ pc = "returned"
    /\ op = "plan"
    /\ (SumSeq(PlanInfo) - Len(PlanInfo) + 4) % 2 = 1
    /\ 2 * T0 = 3 * (SumSeq(PlanInfo) - Len(PlanInfo) + 4) + 1

(* C22: for M > 0 and rowcap >= 0, E_upper_at_T is non-decreasing in T.    *)
C22_EUpperNonDecreasing ==
    pc = "eval" =>
        LET info == PlanInfo
            mode == study_mode
            mapr == max_active_per_row
        IN  /\ SumSeq(info) > 0
            /\ RowCap(info, mode, mapr) >= 0
            /\ \A t \in 0..(T + PER_ELEM_EXPOSURES) :
                  E_upper_at_T(info, mode, mapr, t)
                      <= E_upper_at_T(info, mode, mapr, t + 1)

(* E_upper_at_T is evaluated at a T at which it is strictly larger than at *)
(* T0 and still below the minimum                                          *)
C22_Witness ==
    /\ pc = "eval"
    /\ T > T0
    /\ E_upper_at_T(PlanInfo, study_mode, max_active_per_row, T) = 2
    /\ E_upper_at_T(PlanInfo, study_mode, max_active_per_row, T0) = 1

(* C23 as stated: every returned T satisfies T <= cap - CAPACITY_SLACK, so *)
(* T = cap is never returned.                                              *)
C23_SlackAlwaysKept ==
    pc = "returned" => T <= cap - CAPACITY_SLACK /\ T # cap

(* C23 amended: every returned T satisfies T <= cap, and                   *)
(* T <= cap - CAPACITY_SLACK unless no T in [T0, cap - 1] is feasible, in  *)
(* which case the slack has been relaxed to 0 and T = cap is returned.     *)
C23_SlackKeptUnlessRelaxed ==
    pc = "returned" =>
        /\ T <= cap
        /\ \/ T <= cap - CAPACITY_SLACK /\ slack = CAPACITY_SLACK
           \/ /\ T = cap
              /\ slack = 0
              /\ \A t \in T0..(cap - 1) :
                    E_upper_at_T(PlanInfo, study_mode, max_active_per_row, t)
                        < PER_ELEM_EXPOSURES

(* a plan with T = cap has been returned after smaller values of T were    *)
(* rejected                                                                *)
C23_Witness ==
    /\ pc = "returned"
    /\ op = "plan"
    /\ T = cap
    /\ slack = 0
    /\ T0 < cap

(* C24: the outcome of plan_T_E_auto is the same for every value of        *)
(* CAPACITY_SLACK >= 0: a run with CAPACITY_SLACK = 1 and a run with       *)
(* another slack agree on every input.                                     *)
C24_SlackDoesNotMatter ==
    \A i, j \in Threads :
        /\ ThreadDone(i)
        /\ ThreadDone(j)
        /\ ThreadArgs(i) = ThreadArgs(j)
        /\ threads[i].slack0 # threads[j].slack0
        => /\ threads[i].pc = threads[j].pc
           /\ threads[i].exc = threads[j].exc
           /\ threads[i].ret = threads[j].ret

(* a run with slack 1 and a run with slack 0 have both returned T = cap on *)
(* the same arguments                                                      *)
C24_Witness ==
    /\ threads[1].pc = "returned"
    /\ threads[2].pc = "returned"
    /\ ThreadArgs(1) = ThreadArgs(2)
    /\ threads[1].slack0 = 1
    /\ threads[2].slack0 = 0
    /\ threads[2].slack = 0
    /\ threads[1].ret[1].T = threads[1].cap
    /\ threads[2].ret[1].T = threads[2].cap

(* C25: every plan returned by plan_T_E_auto has a mean number of active   *)
(* categories per row avg_k = M * E / T of at least MIN_ACTIVE_PER_ROW,    *)
(* that is M * E >= MIN_ACTIVE_PER_ROW * T.                                *)
C25_MeanActiveAtLeastMinimum ==
    pc = "returned" =>
        /\ avg_k = <<SumSeq(PlanInfo) * E, T>>
        /\ avg_k[1] >= MIN_ACTIVE_PER_ROW * avg_k[2]

(* C26: a plan accepted at a T strictly greater than the initial T0 has    *)
(* E = PER_ELEM_EXPOSURES = 3 exactly; a returned E > 3 occurs only when   *)
(* T0 itself was accepted.                                                 *)
C26_LaterTGivesMinimumE ==
    pc \in {"finish", "returned"} =>
        /\ T > T0 => E = PER_ELEM_EXPOSURES /\ E = 3
        /\ E > PER_ELEM_EXPOSURES => T = T0

(* a plan has been returned in layer mode at a T at least two above T0,    *)
(* the T before it giving one exposure fewer                               *)
C26_Witness ==
    /\ pc = "returned"
    /\ op = "plan"
    /\ T > T0
    /\ E = PER_ELEM_EXPOSURES
    /\ E_upper_at_T(PlanInfo, study_mode, max_active_per_row, T - 1)
           = PER_ELEM_EXPOSURES - 1
    /\ study_mode = "layer"
    /\ T >= T0 + 2

(* C27: when the row cap is the category count C (layer mode, grid mode    *)
(* without max_active_per_row) or at least C, and M > 0, the row-capacity  *)
(* bound never binds: for every T >= 0, E_upper_at_T(T) is the minimum     *)
(* over the categories c of floor(T / (q[c] + ABSENCE_RATIO)).             *)
C27_RowcapBoundNeverBinds ==
    /\ pc = "eval"
    /\ SumSeq(PlanInfo) > 0
    /\ \/ study_mode = "layer"
       \/ max_active_per_row = None
       \/ max_active_per_row[1] >= Len(PlanInfo)
    => \A t \in 0..(T + cap) :
          E_upper_at_T(PlanInfo, study_mode, max_active_per_row, t)
              = Least({t \div (PlanInfo[c] + 2) : c \in 1..Len(PlanInfo)})

(* E_upper_at_T is evaluated in layer mode on four categories of different *)
(* sizes, where the row-capacity bound is above the ratio bound            *)
C27_Witness ==
    /\ pc = "eval"
    /\ study_mode = "layer"
    /\ Len(PlanInfo) = 4
    /\ PlanInfo[1] # PlanInfo[2]
    /\ (T * Len(PlanInfo)) \div SumSeq(PlanInfo) > MinRatio(PlanInfo, 1, T)
    /\ E_upper_at_T(PlanInfo, study_mode, max_active_per_row, T)
           = MinRatio(PlanInfo, 1, T)

(* the call of the planner in progress has fewer than MIN_ACTIVE_PER_ROW   *)
(* categories, or is in grid mode with max_active_per_row below 2          *)
TooFewActive ==
    \/ Len(PlanInfo) < MIN_ACTIVE_PER_ROW
    \/ /\ study_mode = "grid"
       /\ max_active_per_row # None
       /\ max_active_per_row[1] < 2

(* C28: plan_T_E_auto raises infeasibility on every category_info with     *)
(* fewer than MIN_ACTIVE_PER_ROW = 2 categories and, in grid mode, on      *)
(* every input with max_active_per_row < 2, the enumerated capacity being  *)
(* 0; the facade called with a single-category category_info has the       *)
(* outcome of calculate_tasks_per_consumer_simple(total_elements).         *)
C28_TooFewActiveIsInfeasible ==
    /\ PlanStarted /\ TooFewActive =>
          /\ cap = 0
          /\ pc \in {"loop", "raised"}
          /\ T = T0
          /\ pc = "raised" => exc = "RuntimeError"
    /\ /\ pc \in {"facade_done", "facade_raised"}
       /\ category_info # None
       /\ Len(category_info[1]) = 1
       => LET o == SimpleOutcome(total_elements)
          IN  /\ (pc = "facade_done") <=> (o.exc = "none")
              /\ pc = "facade_done" => result = Some(o.value)

(* the facade, in advanced mode on a single category of three elements,    *)
(* has returned the simple value after the planner raised on capacity 0    *)
C28_Witness ==
    /\ pc = "facade_done"
    /\ use_advanced_algorithm
    /\ category_info = Some(<<3>>)
    /\ ~PyLess(total_elements, 4)
    /\ cap = 0
    /\ T = T0
    /\ T0 > 0
    /\ result = Some(SimpleOutcome(total_elements).value)

(* the cap of the tier of a machine integer n >= 9, and the value claimed  *)
(* below the cap for n in 4..8                                             *)
TierCap(n) ==
    IF n <= 16 THEN 24 ELSE IF n <= 32 THEN 48 ELSE IF n <= 64 THEN 96 ELSE 120

BelowCap(n) == <<3, 5, 7, 10, 14>>[n - 3]

(* C29: for every n >= 9 the simple and the reference-compatible fallback  *)
(* return exactly the tier cap (24 for 9..16, 48 for 17..32, 96 for        *)
(* 33..64, 120 above 64); for n in 4..8 they return 3, 5, 7, 10, 14; the   *)
(* result never exceeds 120, and n = 3 gives 8 while n = 4 gives 3.        *)
C29_TierCapFromNine ==
    FallbackDone =>
        LET n     == total_elements
            small == Len(n.mag) <= 1
            v     == NatOfBig(n.mag)
        IN  /\ result # None
            /\ result[1] <= 120
            /\ ~PyLess(n, 9) =>
                  result = Some(IF small THEN TierCap(v) ELSE 120)
            /\ ~PyLess(n, 4) /\ PyLess(n, 9) => result = Some(BelowCap(v))
            /\ n = PyInt(3) => result = Some(8)
            /\ n = PyInt(4) => result = Some(3)

(* C30: in the result of validate_calculation_consistency the 'advanced'   *)
(* entry, when present, is an integer, never an error string, and equals   *)
(* calculate_tasks_per_consumer(total_elements, category_info, 'grid',     *)
(* True): 8 below 4 elements, the planner's T when it succeeds, the simple *)
(* value otherwise; when the planner is infeasible it equals 'simple'.     *)
C30_AdvancedIsFacadeResult ==
    pc = "done" /\ op = "validate" /\ results.advanced # None =>
        LET a    == results.advanced[1]
            info == category_info[1]
            t    == PlannedT(info, "grid", Some(Min(4, Len(info))))
        IN  /\ ~a.error
            /\ a.value = IF PyLess(total_elements, 4) THEN 8
                         ELSE IF t > 0 THEN t
                         ELSE results.simple[1]
            /\ t = 0 => a.value = results.simple[1]

(* a validation on four or more elements and several categories has       *)
(* finished with the planner infeasible and 'advanced' equal to 'simple'   *)
C30_Witness ==
    /\ pc = "done"
    /\ op = "validate"
    /\ results.advanced # None
    /\ ~PyLess(total_elements, 4)
    /\ Len(category_info[1]) >= 2
    /\ PlannedT(category_info[1], "grid",
                Some(Min(4, Len(category_info[1])))) = 0
    /\ ~results.advanced[1].error
    /\ results.advanced[1].value = results.simple[1]
    /\ results.advanced[1].value # 8

====
